---- MODULE Spec2Model ----
(***************************************************************************)
(* Top-down car dynamics (gym/envs/box2d/car_dynamics.py): the Car object, *)
(* its driver inputs gas/brake/steer, its per-tick step and its destroy,   *)
(* over a Box2D world that is modelled as the car's environment.           *)
(*                                                                         *)
(* Python floats are modelled as exact rationals <<n, d>> (d > 0, lowest   *)
(* terms); every input set below is chosen so that each square root the    *)
(* code takes is rational and every intermediate value fits TLC's integers.*)
(***************************************************************************)
EXTENDS Integers, Naturals, Sequences, FiniteSets, TLC

----------------------------------------------------------------------------
(* Exact rational arithmetic standing for Python's float arithmetic.       *)

IAbs(i) == IF i < 0 THEN 0 - i ELSE i

RECURSIVE GCD(_, _)
GCD(a, b) == IF b = 0 THEN a ELSE GCD(b, a % b)

\* the rational n/d in lowest terms with a positive denominator
Q(n, d) ==
    LET s == IF d < 0 THEN 0 - 1 ELSE 1
        g == GCD(IAbs(n), IAbs(d))
    IN  << (s * n) \div g, (s * d) \div g >>

I(n) == << n, 1 >>

RAdd(x, y) ==
    LET g == GCD(x[2], y[2])
    IN  Q(x[1] * (y[2] \div g) + y[1] * (x[2] \div g), (x[2] \div g) * y[2])

RNeg(x) == << 0 - x[1], x[2] >>

RSub(x, y) == RAdd(x, RNeg(y))

RMul(x, y) ==
    LET g1 == GCD(IAbs(x[1]), y[2])
        g2 == GCD(IAbs(y[1]), x[2])
    IN  IF x[1] = 0 \/ y[1] = 0 THEN I(0)
        ELSE << (x[1] \div g1) * (y[1] \div g2), (x[2] \div g2) * (y[2] \div g1) >>

RDiv(x, y) == RMul(x, IF y[1] < 0 THEN << 0 - y[2], 0 - y[1] >> ELSE << y[2], y[1] >>)

\* a/b < c/d for b, d > 0, by the integer parts first and the remainders' reciprocals
\* after (no product is formed)
RECURSIVE FracLt(_, _, _, _)
FracLt(a, b, c, d) ==
    IF a \div b # c \div d THEN a \div b < c \div d
    ELSE IF c % d = 0 THEN FALSE
    ELSE IF a % b = 0 THEN TRUE
    ELSE FracLt(d, c % d, b, a % b)

RLt(x, y) == FracLt(x[1], x[2], y[1], y[2])

RLe(x, y) == ~RLt(y, x)

RAbs(x) == << IAbs(x[1]), x[2] >>

RMax(x, y) == IF RLt(x, y) THEN y ELSE x

RMin(x, y) == IF RLt(y, x) THEN y ELSE x

\* np.sign
RSign(x) == IF x[1] > 0 THEN I(1) ELSE IF x[1] < 0 THEN I(0 - 1) ELSE I(0)

\* np.clip(x, lo, hi)
RClip(x, lo, hi) == RMax(lo, RMin(x, hi))

RECURSIVE RPow(_, _)
RPow(x, n) == IF n = 0 THEN I(1) ELSE RMul(x, RPow(x, n - 1))

\* the exact integer square root (defined on perfect squares only)
ISqrt(n) == CHOOSE r \in 0..n : r * r = n

\* math.sqrt(x**2 + y**2) for x, y whose hypotenuse is rational
Hypot(x, y) ==
    IF y[1] = 0 THEN RAbs(x)
    ELSE IF x[1] = 0 THEN RAbs(y)
    ELSE LET r == RAbs(RDiv(x, y))
             h == ISqrt(r[1] * r[1] + r[2] * r[2])
         IN  RMul(RAbs(y), Q(h, r[2]))

----------------------------------------------------------------------------
(* Module constants of car_dynamics.py.                                    *)

SIZE == Q(1, 50)

ENGINE_POWER == RMul(I(100000000), RMul(SIZE, SIZE))

WHEEL_MOMENT_OF_INERTIA == RMul(I(4000), RMul(SIZE, SIZE))

WHEEL_BASE_FRICTION == I(1)

WHEEL_R == 27

WHEELPOS == << <<0 - 55, 80>>, <<55, 80>>, <<0 - 55, 0 - 82>>, <<55, 0 - 82>> >>

MAXSPEED == 100

MAXACEL == 40

MAXDECEL == 50

\* the 205000*SIZE*SIZE that scales f_force and p_force
FORCE_COEF == RMul(I(205000), RMul(SIZE, SIZE))

\* revoluteJointDef(lowerAngle=-0.4, upperAngle=+0.4)
upperAngle == Q(2, 5)

lowerAngle == Q(0 - 2, 5)

\* the floor max(friction_limit, 20)
FRICTION_FLOOR == 20

\* the cap of the steering rate, min(50.0*val, 3.0)
STEER_GAIN == 50

STEER_CAP == 3

\* len(self.particles) > 30 and len(w.skid_particle.poly) < 30
MAX_PARTICLES == 30

MAX_POLY == 30

\* Python's None, and a present value
None == << >>

Some(v) == << v >>

\* the bodies the constructor creates: the hull, then one wheel per WHEELPOS entry
HullBody == "hull"

WheelBodies == << "w0", "w1", "w2", "w3" >>

WheelSet == { WheelBodies[i] : i \in 1..Len(WheelBodies) }

\* s[a:b] of Python, a and b counted from 0
PySlice(s, a, b) ==
    LET lo == IF a < Len(s) THEN a ELSE Len(s)
        hi == IF b < Len(s) THEN b ELSE Len(s)
    IN  SubSeq(s, lo + 1, hi)

\* w.wheel_rad = front_k*WHEEL_R*SIZE, front_k being 1.0 for every wheel
wheel_rad(w) == RMul(RMul(I(1), I(WHEEL_R)), SIZE)

----------------------------------------------------------------------------
(* Tire profile selected at the top of step, and the wear curve.           *)

tire == 1

WHEEL_WEAR_COEFF ==
    IF tire = 1 THEN Q(4, 10000)
    ELSE IF tire = 2 THEN Q(6, 10000)
    ELSE IF tire = 3 THEN Q(7, 10000)
    ELSE IF tire = 4 THEN Q(9, 10000)
    ELSE Q(10, 10000)

WHEEL_K == RMul(WHEEL_WEAR_COEFF, I(1))

FRICTION_LIMIT ==
    IF tire = 1 THEN RMul(I(1000000), RMul(SIZE, SIZE))
    ELSE IF tire = 2 THEN RMul(I(1200000), RMul(SIZE, SIZE))
    ELSE IF tire = 3 THEN RMul(I(1400000), RMul(SIZE, SIZE))
    ELSE IF tire = 4 THEN RMul(I(1600000), RMul(SIZE, SIZE))
    ELSE RMul(I(1800000), RMul(SIZE, SIZE))

\* the wear curve with botthing taken around WHEEL_K instead of WHEEL_K + 1
TireWearNoOffset(dist) ==
    LET topthing == RSub(RMul(WHEEL_WEAR_COEFF, dist), WHEEL_K)
        botthing == RAdd(I(1), RAbs(RSub(RMul(WHEEL_WEAR_COEFF, dist), WHEEL_K)))
    IN  RSub(I(1), RMul(Q(1, 2), RAdd(RDiv(topthing, botthing), I(1))))

\* topthing, botthing and self.tireWear for a given self.totalDistance
TireWear(dist) ==
    LET topthing == RSub(RMul(WHEEL_WEAR_COEFF, dist), WHEEL_K)
        botthing == RAdd(I(1), RAbs(RSub(RMul(WHEEL_WEAR_COEFF, dist),
                                         RAdd(WHEEL_K, I(1)))))
    IN  RSub(I(1), RMul(Q(1, 2), RAdd(RDiv(topthing, botthing), I(1))))

----------------------------------------------------------------------------
(* The two speed curves local to step.                                      *)

\* the acceleration curve with the gas term left out
acelWithoutGas(g, rad_of_wheel, v, tickLen) == RDiv(Hypot(v[1], v[2]), rad_of_wheel)

acel(g, rad_of_wheel, v, tickLen) ==
    LET current_vel    == Hypot(v[1], v[2])
        scaledVelocity == RDiv(RMul(current_vel, I(10)), I(MAXSPEED))
        k              == Q(1, 100000)
        acel_coef      == RDiv(I(1), RAdd(RMul(k, RPow(scaledVelocity, 7)), I(1)))
        currentAcc     == RMul(RMul(g, I(MAXACEL)), acel_coef)
        new_vel        == RAdd(current_vel, RMul(currentAcc, tickLen))
    IN  RDiv(new_vel, rad_of_wheel)

decel(b, rad_of_wheel, v, tickLen) ==
    LET current_vel    == Hypot(v[1], v[2])
        scaledVelocity == RDiv(RMul(current_vel, I(27)), I(MAXSPEED))
        ca             == RMul(Q(0 - 336765, 100000), Q(1, 100000))
        cb             == Q(183713, 100000000)
        cc             == Q(0 - 365703, 10000000)
        cd             == Q(313523, 1000000)
        s2             == RMul(scaledVelocity, scaledVelocity)
        decel_coef     == RAdd(RAdd(RMul(ca, RMul(s2, s2)),
                                    RMul(cb, RMul(s2, scaledVelocity))),
                               RAdd(RMul(cc, s2), RMul(cd, scaledVelocity)))
        currentDecel   == RMul(RMul(b, I(MAXDECEL)), decel_coef)
        new_vel        == RSub(current_vel, RMul(currentDecel, tickLen))
    IN  RDiv(new_vel, rad_of_wheel)

----------------------------------------------------------------------------
(* State: the Car's fields, the attributes the constructor hangs on each   *)
(* wheel body, and the part of the Box2D world that step reads and writes. *)

VARIABLES
    hull,            \* self.hull: Some(HullBody) or None
    wheels,          \* self.wheels: sequence of wheel bodies
    drawlist,        \* self.drawlist
    particles,       \* self.particles: sequence of particle objects (by identity)
    fuel_spent,      \* self.fuel_spent
    totalDistance,   \* self.totalDistance
    tireWear,        \* self.tireWear
    gas,             \* w.gas
    brake,           \* w.brake
    steer,           \* w.steer
    phase,           \* w.phase
    omega,           \* w.omega
    skid_start,      \* w.skid_start: None or Some(position)
    skid_particle,   \* w.skid_particle: None or Some(particle identity)
    tiles,           \* w.tiles: set of tiles the wheel overlaps
    heap,            \* the Particle objects alive: identity -> [color, ttl, poly, grass]
    nCreated,        \* how many Particle objects _create_particle has built
    jointAngle,      \* w.joint.angle
    motorSpeed,      \* w.joint.motorSpeed
    linearVelocity,  \* w.linearVelocity
    position,        \* w.position
    bodyAngle,       \* the wheel body's angle, in quarter turns
    bodyForce,       \* the force accumulated on the wheel body for the coming world step
    destroyed,       \* the bodies handed to world.DestroyBody
    loc,             \* the locals of the last step, per wheel
    dt,              \* the tick length the session passes to step and to the world
    turn,            \* whose move it is in the frame loop: "car" or "world"
    ticks            \* how many times step has run

carVars == << hull, wheels, drawlist, particles, fuel_spent, totalDistance, tireWear >>

wheelVars == << gas, brake, steer, phase, omega, skid_start, skid_particle, tiles >>

worldVars == << jointAngle, motorSpeed, linearVelocity, position, bodyAngle, bodyForce,
                destroyed >>

vars == << carVars, wheelVars, worldVars, heap, nCreated, loc, dt, turn, ticks >>

\* w.GetWorldVector((0,1)) and w.GetWorldVector((1,0)) of a body turned q quarter turns
forwOf(q) ==
    IF q = 0 THEN << I(0), I(1) >>
    ELSE IF q = 1 THEN << I(0 - 1), I(0) >>
    ELSE IF q = 2 THEN << I(0), I(0 - 1) >>
    ELSE << I(1), I(0) >>

sideOf(q) ==
    IF q = 0 THEN << I(1), I(0) >>
    ELSE IF q = 1 THEN << I(0), I(1) >>
    ELSE IF q = 2 THEN << I(0 - 1), I(0) >>
    ELSE << I(0), I(0 - 1) >>

\* the surface tiles of the track, and tile.road_friction
Tiles == { "t30", "t80", "t100" }

road_friction(t) ==
    IF t = "t30" THEN Q(3, 10) ELSE IF t = "t80" THEN Q(8, 10) ELSE I(1)

\* what step has not computed yet
NoLocals ==
    [ stepped |-> FALSE, tiles |-> {}, tireWear |-> I(0), friction_limit |-> I(0),
      grass |-> TRUE, brake |-> I(0), omega_acel |-> I(0), omega_set |-> I(0),
      vr |-> I(0), raw |-> << I(0), I(0) >>, force |-> I(0),
      applied |-> << I(0), I(0) >>, skid |-> FALSE, gained |-> FALSE,
      created |-> FALSE, prevSkid |-> FALSE, startBefore |-> FALSE ]

\* Car.__init__(world, init_angle, init_x, init_y) in a session whose tick length is
\* tickLen.  dist = 0 is the state the constructor leaves.  dist > 0 is that car
\* after it has rolled straight ahead over dist with no gas and no brake and has
\* then stood still for a tick: the odometer, the wear computed by that last tick,
\* the wheel phases and the positions have moved on, everything else is as built.
CarInit(init_angle, init_x, init_y, tickLen, dist) ==
    /\ hull = Some(HullBody)
    /\ wheels = WheelBodies
    /\ drawlist = WheelBodies \o << HullBody >>
    /\ particles = << >>
    /\ fuel_spent = I(0)
    /\ totalDistance = dist
    /\ tireWear = IF dist = I(0) THEN I(0) ELSE TireWear(dist)
    /\ gas = [w \in WheelSet |-> I(0)]
    /\ brake = [w \in WheelSet |-> I(0)]
    /\ steer = [w \in WheelSet |-> I(0)]
    /\ phase = [w \in WheelSet |-> RDiv(dist, wheel_rad(w))]
    /\ omega = [w \in WheelSet |-> I(0)]
    /\ skid_start = [w \in WheelSet |-> None]
    /\ skid_particle = [w \in WheelSet |-> None]
    /\ tiles = [w \in WheelSet |-> {}]
    /\ heap = << >>
    /\ nCreated = 0
    /\ jointAngle = [w \in WheelSet |-> I(0)]
    /\ motorSpeed = [w \in WheelSet |-> I(0)]
    /\ linearVelocity = [w \in WheelSet |-> << I(0), I(0) >>]
    /\ position = [w \in WheelSet |->
          LET i == CHOOSE j \in 1..Len(WheelBodies) : WheelBodies[j] = w
          IN  << RAdd(RAdd(init_x, RMul(I(WHEELPOS[i][1]), SIZE)),
                      RMul(dist, forwOf(init_angle)[1])),
                 RAdd(RAdd(init_y, RMul(I(WHEELPOS[i][2]), SIZE)),
                      RMul(dist, forwOf(init_angle)[2])) >>]
    /\ bodyAngle = [w \in WheelSet |-> init_angle]
    /\ bodyForce = [w \in WheelSet |-> << I(0), I(0) >>]
    /\ destroyed = {}
    /\ loc = [w \in WheelSet |-> NoLocals]
    /\ dt = tickLen
    /\ turn = "car"
    /\ ticks = 0

----------------------------------------------------------------------------
(* Driver inputs.                                                           *)

\* the loop body of gas() without the 0.1 limit on the rise
GasRampUnlimited(cur, target) == target

\* one pass of the loop body of gas() for a wheel whose applied gas is cur
GasRamp(cur, target) ==
    LET diff == RSub(target, cur)
    IN  RAdd(cur, IF RLt(Q(1, 10), diff) THEN Q(1, 10) ELSE diff)

Gas(g) ==
    /\ turn = "car"
    /\ LET clipped == RClip(g, I(0), I(1))
           rear    == PySlice(wheels, 2, 4)
           rearSet == { rear[i] : i \in 1..Len(rear) }
       IN  gas' = [w \in WheelSet |->
                     IF w \in rearSet THEN GasRamp(gas[w], clipped) ELSE gas[w]]
    /\ UNCHANGED << carVars, brake, steer, phase, omega, skid_start, skid_particle,
                    tiles, worldVars, heap, nCreated, loc, dt, turn, ticks >>

Brake(b) ==
    /\ turn = "car"
    /\ brake' = [w \in WheelSet |->
                   IF \E i \in 1..Len(wheels) : wheels[i] = w THEN b ELSE brake[w]]
    /\ UNCHANGED << carVars, gas, steer, phase, omega, skid_start, skid_particle,
                    tiles, worldVars, heap, nCreated, loc, dt, turn, ticks >>

\* self.wheels[0] and self.wheels[1] must exist, or the call raises IndexError
Steer(s) ==
    /\ turn = "car"
    /\ Len(wheels) >= 2
    /\ steer' = [w \in WheelSet |->
                   IF w = wheels[1] \/ w = wheels[2] THEN s ELSE steer[w]]
    /\ UNCHANGED << carVars, gas, brake, phase, omega, skid_start, skid_particle,
                    tiles, worldVars, heap, nCreated, loc, dt, turn, ticks >>

----------------------------------------------------------------------------
(* destroy().                                                               *)

Destroy ==
    /\ turn = "car"
    /\ hull # None
    /\ destroyed' = destroyed \cup { hull[1] } \cup { wheels[i] : i \in 1..Len(wheels) }
    /\ hull' = None
    /\ wheels' = << >>
    /\ UNCHANGED << drawlist, particles, fuel_spent, totalDistance, tireWear, wheelVars,
                    jointAngle, motorSpeed, linearVelocity, position, bodyAngle,
                    bodyForce, heap, nCreated, loc, dt, turn, ticks >>

----------------------------------------------------------------------------
(* step(dt).                                                                *)

\* the orders in which "for tile in w.tiles" may visit a set
Orders(S) ==
    { o \in [1..Cardinality(S) -> S] : \A i, j \in 1..Cardinality(S) : o[i] = o[j] => i = j }

\* the loop "for tile in w.tiles" over the visiting order ord, from friction_limit fl
RECURSIVE TileLoop(_, _, _)
TileLoop(fl, ord, tw) ==
    IF ord = << >> THEN fl
    ELSE TileLoop(RMul(RMul(RMax(fl, RMul(FRICTION_LIMIT, road_friction(Head(ord)))), tw),
                       WHEEL_BASE_FRICTION),
                  Tail(ord), tw)

\* "Position => friction_limit": the grass limit, the tile loop, the floor
FrictionLimit(ord, tw) ==
    LET grassLimit == RMul(RMul(RMul(FRICTION_LIMIT, Q(6, 10)), tw), WHEEL_BASE_FRICTION)
    IN  RMax(TileLoop(grassLimit, ord, tw), I(FRICTION_FLOOR))

\* the servo rate without the cap of 3.0
SteerRateUncapped(target, angle) ==
    RMul(RSign(RSub(target, angle)), RMul(I(STEER_GAIN), RAbs(RSub(target, angle))))

\* w.joint.motorSpeed = dir*min(50.0*val, 3.0)
SteerRate(target, angle) ==
    LET dir == RSign(RSub(target, angle))
        val == RAbs(RSub(target, angle))
    IN  RMul(dir, RMin(RMul(I(STEER_GAIN), val), I(STEER_CAP)))

\* the branch on w.brake with the lock case falling through to the acel value
OmegaSetNoLock(b, omega_acel, rad, v, tickLen) ==
    IF RLt(I(0), b) /\ RLt(b, Q(9, 10)) THEN decel(b, rad, v, tickLen) ELSE omega_acel

\* the branch on w.brake that settles w.omega after acel has run
OmegaSet(b, omega_acel, rad, v, tickLen) ==
    IF RLe(Q(9, 10), b) THEN I(0)
    ELSE IF RLt(I(0), b) THEN decel(b, rad, v, tickLen)
    ELSE omega_acel

\* "if abs(force) > 2.0*friction_limit"
SkidCond(force, fl) == RLt(RMul(I(2), fl), RAbs(force))

\* the clipping done only past the skid threshold 2.0*friction_limit
ClipPastSkid(raw, force, fl) ==
    IF RLt(RMul(I(2), fl), RAbs(force))
    THEN << RMul(RDiv(raw[1], force), fl), RMul(RDiv(raw[2], force), fl) >>
    ELSE raw

\* "if abs(force) > friction_limit": the pair (f_force, p_force) that is applied
Clip(raw, force, fl) ==
    IF RLt(fl, RAbs(force))
    THEN << RMul(RDiv(raw[1], force), fl), RMul(RDiv(raw[2], force), fl) >>
    ELSE raw

\* the locals of one pass of the wheel loop once the slip force and its magnitude
\* are known: the skid test and the clipped force
ClipLocals(w, ord, tw, fl, omega_acel, omega_set, raw, force) ==
    [ stepped |-> TRUE, tiles |-> tiles[w], tireWear |-> tw,
      friction_limit |-> fl, grass |-> (ord = << >>), brake |-> brake[w],
      omega_acel |-> omega_acel, omega_set |-> omega_set,
      vr |-> RMul(omega_set, wheel_rad(w)),
      raw |-> raw, force |-> force,
      applied |-> Clip(raw, force, fl),
      skid |-> SkidCond(force, fl), gained |-> FALSE, created |-> FALSE,
      prevSkid |-> loc[w].skid, startBefore |-> (skid_start[w] # None) ]

\* forward and side speed of v along the axes forw and side
Along(axis, v) == RAdd(RMul(axis[1], v[1]), RMul(axis[2], v[2]))

\* f_force and p_force, scaled, from vf, vs and the rim speed vr
RawForce(vf, vs, vr) ==
    << RMul(RAdd(RNeg(vf), vr), FORCE_COEF), RMul(RNeg(vs), FORCE_COEF) >>

ForceLocals(w, ord, tw, fl, omega_acel, omega_set, raw) ==
    ClipLocals(w, ord, tw, fl, omega_acel, omega_set, raw, Hypot(raw[1], raw[2]))

SlipLocals(w, ord, tw, fl, omega_acel, omega_set) ==
    ForceLocals(w, ord, tw, fl, omega_acel, omega_set,
                RawForce(Along(forwOf(bodyAngle[w]), linearVelocity[w]),
                         Along(sideOf(bodyAngle[w]), linearVelocity[w]),
                         RMul(omega_set, wheel_rad(w))))

OmegaLocals(w, ord, tw, fl, omega_acel) ==
    SlipLocals(w, ord, tw, fl, omega_acel,
               OmegaSet(brake[w], omega_acel, wheel_rad(w), linearVelocity[w], dt))

\* everything one pass of the wheel loop computes from what it reads, for the order
\* ord in which this wheel's tiles are visited
WheelLocals(w, ord, tw) ==
    OmegaLocals(w, ord, tw, FrictionLimit(ord, tw),
                acel(gas[w], wheel_rad(w), linearVelocity[w], dt))

\* _create_particle popping the newest particle instead of the oldest
CreateParticleKeepOldest(st, point1, point2, grass) ==
    LET id       == st.n + 1
        p        == [ color |-> IF ~grass THEN "WHEEL_COLOR" ELSE "MUD_COLOR",
                      ttl |-> 1, poly |-> << point1, point2 >>, grass |-> grass ]
        appended == Append(st.particles, id)
        kept     == IF Len(appended) > MAX_PARTICLES
                    THEN SubSeq(appended, 1, MAX_PARTICLES)
                    ELSE appended
    IN  [ st EXCEPT !.n = id, !.particles = kept,
                    !.heap = [ i \in DOMAIN st.heap \cup { id } |->
                                 IF i = id THEN p ELSE st.heap[i] ] ]

\* _create_particle(point1, point2, grass) on the skid state st; the new object's
\* identity is st.n + 1
CreateParticle(st, point1, point2, grass) ==
    LET id       == st.n + 1
        p        == [ color |-> IF ~grass THEN "WHEEL_COLOR" ELSE "MUD_COLOR",
                      ttl |-> 1, poly |-> << point1, point2 >>, grass |-> grass ]
        appended == Append(st.particles, id)
        kept     == IF Len(appended) > MAX_PARTICLES
                    THEN SubSeq(appended, Len(appended) - MAX_PARTICLES + 1, Len(appended))
                    ELSE appended
    IN  [ st EXCEPT !.n = id, !.particles = kept,
                    !.heap = [ i \in DOMAIN st.heap \cup { id } |->
                                 IF i = id THEN p ELSE st.heap[i] ] ]

\* the "Skid trace" block appending to the active particle whatever its surface
SkidTraceAnySurface(st, w, skid, grass) ==
    LET sp == st.part[w]
    IN  IF skid
        THEN IF sp # None /\ Len(st.heap[sp[1]].poly) < MAX_POLY
             THEN [ st EXCEPT !.heap[sp[1]].poly = Append(@, position[w]),
                              !.gained = @ \cup { w } ]
             ELSE IF st.start[w] = None
             THEN [ st EXCEPT !.start[w] = Some(position[w]) ]
             ELSE LET c == CreateParticle(st, st.start[w][1], position[w], grass)
                  IN  [ c EXCEPT !.part[w] = Some(c.n), !.start[w] = None,
                                 !.created = @ \cup { w } ]
        ELSE [ st EXCEPT !.start[w] = None, !.part[w] = None ]

\* the "Skid trace" block for wheel w, on the skid state st threaded through the loop
SkidTrace(st, w, skid, grass) ==
    LET sp == st.part[w]
    IN  IF skid
        THEN IF sp # None /\ st.heap[sp[1]].grass = grass
                          /\ Len(st.heap[sp[1]].poly) < MAX_POLY
             THEN [ st EXCEPT !.heap[sp[1]].poly = Append(@, position[w]),
                              !.gained = @ \cup { w } ]
             ELSE IF st.start[w] = None
             THEN [ st EXCEPT !.start[w] = Some(position[w]) ]
             ELSE LET c == CreateParticle(st, st.start[w][1], position[w], grass)
                  IN  [ c EXCEPT !.part[w] = Some(c.n), !.start[w] = None,
                                 !.created = @ \cup { w } ]
        ELSE [ st EXCEPT !.start[w] = None, !.part[w] = None ]

\* the wheel loop's effect on the particles, in the order of self.wheels
RECURSIVE SkidLoop(_, _, _)
SkidLoop(st, ws, L) ==
    IF ws = << >> THEN st
    ELSE SkidLoop(SkidTrace(st, Head(ws), L[Head(ws)].skid, L[Head(ws)].grass),
                  Tail(ws), L)

\* sum of f over the wheels of the sequence ws
RECURSIVE SumOver(_, _)
SumOver(ws, f) == IF ws = << >> THEN I(0) ELSE RAdd(f[Head(ws)], SumOver(Tail(ws), f))

InWheels(w) == \E i \in 1..Len(wheels) : wheels[i] = w

\* the Particle objects something still refers to
Live(st) ==
    { st.particles[i] : i \in 1..Len(st.particles) }
        \cup { st.part[w][1] : w \in { u \in WheelSet : st.part[u] # None } }

\* the assignments step makes, given the wheels' locals L and the skid state st the
\* wheel loop ends in
StepCommit(tw, L, st) ==
    /\ tireWear' = tw
    /\ motorSpeed' = [w \in WheelSet |->
          IF InWheels(w) THEN SteerRate(steer[w], jointAngle[w]) ELSE motorSpeed[w]]
    /\ omega' = [w \in WheelSet |->
          IF InWheels(w)
          THEN RSub(L[w].omega_set,
                    RDiv(RMul(RMul(dt, L[w].applied[1]), wheel_rad(w)),
                         WHEEL_MOMENT_OF_INERTIA))
          ELSE omega[w]]
    /\ phase' = [w \in WheelSet |->
          IF InWheels(w) THEN RAdd(phase[w], RMul(L[w].omega_set, dt)) ELSE phase[w]]
    /\ fuel_spent' = RAdd(fuel_spent,
          SumOver(wheels, [w \in WheelSet |-> RMul(RMul(dt, ENGINE_POWER), gas[w])]))
    /\ totalDistance' = RAdd(totalDistance,
          SumOver(wheels, [w \in WheelSet |->
             RDiv(RMul(dt, Hypot(linearVelocity[w][1], linearVelocity[w][2])), I(4))]))
    /\ bodyForce' = [w \in WheelSet |->
          IF InWheels(w)
          THEN << RAdd(bodyForce[w][1],
                       Along(<< sideOf(bodyAngle[w])[1], forwOf(bodyAngle[w])[1] >>,
                             << L[w].applied[2], L[w].applied[1] >>)),
                  RAdd(bodyForce[w][2],
                       Along(<< sideOf(bodyAngle[w])[2], forwOf(bodyAngle[w])[2] >>,
                             << L[w].applied[2], L[w].applied[1] >>)) >>
          ELSE bodyForce[w]]
    /\ particles' = st.particles
    /\ heap' = [ i \in Live(st) |-> st.heap[i] ]
    /\ nCreated' = st.n
    /\ skid_start' = st.start
    /\ skid_particle' = st.part
    /\ loc' = [w \in WheelSet |->
          IF InWheels(w)
          THEN [ L[w] EXCEPT !.gained = (w \in st.gained), !.created = (w \in st.created) ]
          ELSE loc[w]]

StepSkid(tw, L) ==
    StepCommit(tw, L,
               SkidLoop([ particles |-> particles, heap |-> heap, n |-> nCreated,
                          start |-> skid_start, part |-> skid_particle,
                          gained |-> {}, created |-> {} ],
                        wheels, L))

StepWheels(ord, tw) == StepSkid(tw, [w \in WheelSet |-> WheelLocals(w, ord[w], tw)])

\* tileOrder gives, per wheel, the order in which the loop visits the wheel's tiles
Step ==
    /\ turn = "car"
    /\ \E ord \in [WheelSet -> UNION { Orders(tiles[w]) : w \in WheelSet }] :
         /\ \A w \in WheelSet : ord[w] \in Orders(tiles[w])
         /\ StepWheels(ord, TireWear(totalDistance))
    /\ turn' = "world"
    /\ ticks' = ticks + 1
    /\ UNCHANGED << hull, wheels, drawlist, gas, brake, steer, tiles, jointAngle,
                    linearVelocity, position, bodyAngle, destroyed, dt >>

----------------------------------------------------------------------------
(* The Box2D world between two steps: world.Step(dt) and the contact        *)
(* callbacks.  The solver's outcome is the environment's choice: va gives   *)
(* each wheel body its new linear velocity, ta the tiles it now overlaps.   *)
(* The joint turns at the motor speed step commanded, within its limits,    *)
(* the bodies move at their new velocity, and the applied forces are spent. *)

WorldStep(va, ta) ==
    /\ turn = "world"
    /\ linearVelocity' = [w \in WheelSet |->
          IF w \in destroyed THEN linearVelocity[w] ELSE va[w]]
    /\ position' = [w \in WheelSet |->
          IF w \in destroyed THEN position[w]
          ELSE << RAdd(position[w][1], RMul(dt, va[w][1])),
                  RAdd(position[w][2], RMul(dt, va[w][2])) >>]
    /\ jointAngle' = [w \in WheelSet |->
          IF w \in destroyed THEN jointAngle[w]
          ELSE RClip(RAdd(jointAngle[w], RMul(motorSpeed[w], dt)), lowerAngle, upperAngle)]
    /\ tiles' = [w \in WheelSet |-> IF w \in destroyed THEN tiles[w] ELSE ta[w]]
    /\ bodyForce' = [w \in WheelSet |-> << I(0), I(0) >>]
    /\ turn' = "car"
    /\ UNCHANGED << carVars, gas, brake, steer, phase, omega, skid_start, skid_particle,
                    motorSpeed, bodyAngle, destroyed, heap, nCreated, loc, dt, ticks >>

\* the same value for every wheel
AllWheels(S) == { [w \in WheelSet |-> v] : v \in S }

\* every wheel body at rest; no wheel over a tile
AtRest == [w \in WheelSet |-> << I(0), I(0) >>]

NoTiles == [w \in WheelSet |-> {}]

\* a surface striped across the y axis: road tiles where the integer part of y is
\* even, grass where it is odd
TilesAt(pos) == IF (pos[2][1] \div pos[2][2]) % 2 = 0 THEN { "t100" } ELSE {}

\* the speed of wheel w across its own axis under the velocity v
SideSpeed(w, v) == Along(sideOf(bodyAngle[w]), v)

\* the velocities va and brake levels b for which every value step computes is a
\* rational that fits: a wheel moves sideways only while it is locked (the slip force
\* is then FORCE_COEF times the speed), and the deceleration polynomial is taken at
\* speed 0 only
Exact(va, b) ==
    \A w \in WheelSet :
        /\ SideSpeed(w, va[w])[1] = 0 \/ RLe(Q(9, 10), b[w])
        /\ (RLt(I(0), b[w]) /\ RLt(b[w], Q(9, 10))) => va[w] = << I(0), I(0) >>

----------------------------------------------------------------------------
(* The driver's inputs and destroy() on a freshly built car.                *)

GasInputs == { Q(0 - 1, 2), I(0), Q(1, 4), Q(1, 2), I(1), Q(3, 2) }

BrakeInputs == { I(0), Q(1, 2), Q(9, 10), I(1) }

SteerInputs == { Q(0 - 2, 5), I(0), Q(2, 5) }

InitInputs == CarInit(0, I(0), I(0), Q(1, 50), I(0))

NextInputs ==
    \/ \E g \in GasInputs : Gas(g)
    \/ \E b \in BrakeInputs : Brake(b)
    \/ \E s \in SteerInputs : Steer(s)
    \/ Destroy

SpecInputs == InitInputs /\ [][NextInputs]_vars

RearWheels == { "w2", "w3" }

FrontWheels == { "w0", "w1" }

\* C4: a call gas(g1) of a car with its four wheels moves each rear wheel's applied
\* gas g0 to exactly g0 + 0.1 when the clamped target is more than 0.1 above it and
\* to the clamped target itself when that is below g0; the applied gas never rises by
\* more than 0.1 in a call, stays within [0,1], and the front wheels keep theirs.
C4_GasRamp ==
    [][\A g \in GasInputs :
         (Gas(g) /\ Len(wheels) = 4) =>
            LET g1 == RClip(g, I(0), I(1))
            IN  /\ \A w \in RearWheels :
                     /\ RLt(Q(1, 10), RSub(g1, gas[w])) => gas'[w] = RAdd(gas[w], Q(1, 10))
                     /\ RLt(g1, gas[w]) => gas'[w] = g1
                     /\ RLe(RSub(gas'[w], gas[w]), Q(1, 10))
                     /\ RLe(I(0), gas'[w]) /\ RLe(gas'[w], I(1))
                /\ \A w \in FrontWheels : gas'[w] = gas[w]]_vars

\* a rear wheel ramped from 1/4 to 7/20 by a call whose target was further away
C4_Witness == gas["w2"] = Q(7, 20) /\ gas["w3"] = Q(7, 20) /\ gas["w0"] = I(0)

\* C5: once destroy() has returned, the hull and the four wheel bodies are released
\* and no field of the Car (hull, wheels, drawlist) refers to a released body.
C5_NoHandlesLeft ==
    hull = None =>
        /\ destroyed = WheelSet \cup { HullBody }
        /\ wheels = << >>
        /\ \A i \in 1..Len(drawlist) : drawlist[i] \notin destroyed
----------------------------------------------------------------------------
(* A car that rolls straight ahead at MAXSPEED until its tires are worn out. *)

\* the odometer reading up to which the run is followed
MaxDistance == 2504

Ahead(q, speed) == << RMul(forwOf(q)[1], I(speed)), RMul(forwOf(q)[2], I(speed)) >>

InitWear == \E tickLen \in { Q(1, 50), Q(1, 25) } : CarInit(0, I(0), I(0), tickLen, I(0))

NextWear ==
    \/ RLt(totalDistance, I(MaxDistance)) /\ Step
    \/ WorldStep([w \in WheelSet |-> Ahead(0, MAXSPEED)], NoTiles)

SpecWear == InitWear /\ [][NextWear]_vars

\* self.totalDistance at which WHEEL_WEAR_COEFF*totalDistance reaches WHEEL_K + 1
WornOut == RDiv(RAdd(WHEEL_K, I(1)), WHEEL_WEAR_COEFF)

\* C1, as stated: after any step the recomputed tireWear is in (0,1].
C1_WearInHalfOpenUnit ==
    ticks > 0 => RLt(I(0), tireWear) /\ RLe(tireWear, I(1))

\* C1, amended: after any step the recomputed tireWear is in [0,1], it is positive
\* exactly while the distance it was computed from is below (WHEEL_K+1)/WHEEL_WEAR_COEFF
\* and it is exactly 0 from there on.
C1_WearInClosedUnit ==
    (ticks > 0 /\ turn = "car") =>
        /\ RLe(I(0), tireWear) /\ RLe(tireWear, I(1))
        /\ \E before \in { RSub(totalDistance, RMul(dt, I(MAXSPEED))), totalDistance } :
              /\ tireWear = TireWear(before)
              /\ (tireWear = I(0)) = RLe(WornOut, before)

C1_Witness == ticks > 0 /\ tireWear = I(0) /\ RLe(WornOut, totalDistance)
----------------------------------------------------------------------------
(* A car standing on the track while its wheels come to overlap tiles.      *)

\* how many ticks the standing car is followed
MaxTileTicks == 2

\* wheel w0 overlaps any set of tiles, the other wheels none or one
TileAssignments ==
    { [w \in WheelSet |-> IF w = "w0" THEN S ELSE R] :
        S \in SUBSET Tiles, R \in { {}, { "t80" } } }

\* odometer readings at which the wear is 1/2, 1/3 and 0
InitTiles ==
    \E dist \in { I(1), I(1251), I(2501) } : CarInit(0, I(0), I(0), Q(1, 50), dist)

NextTiles ==
    \/ ticks < MaxTileTicks /\ Step
    \/ \E ta \in TileAssignments : WorldStep(AtRest, ta)

SpecTiles == InitTiles /\ [][NextTiles]_vars

\* the tile of S with the greatest road_friction
BestTile(S) == CHOOSE t \in S : \A u \in S : RLe(road_friction(u), road_friction(t))

\* C2: for a wheel that overlapped a non-empty set of tiles, the friction limit step
\* computed is the limit a single tile of the maximum road_friction of the set gives
\* at the same tireWear, whatever the visiting order and the number of tiles.
C2_MaxTileWins ==
    \A w \in WheelSet :
        (loc[w].stepped /\ loc[w].tiles # {}) =>
            loc[w].friction_limit
                = FrictionLimit(<< BestTile(loc[w].tiles) >>, loc[w].tireWear)
----------------------------------------------------------------------------
(* A used car driven for a few ticks: gas, brake, rolling, sliding.         *)

\* how many ticks the driven car is followed
MaxForceTicks == 2

\* at rest, ahead or back along either axis, and across both
ForceVelocities ==
    { << I(0), I(0) >>, << I(0), I(50) >>, << I(0), I(0 - 50) >>, << I(0 - 50), I(0) >>,
      << I(6), I(8) >> }

\* the gas targets of the driven car
ForceGas == { I(0), Q(1, 5) }

\* the car has rolled before: 1 (its tireWear is 1/2) or 2501 (its tyres are gone)
InitForce ==
    \E a \in { 0, 1 }, tickLen \in { Q(1, 50), Q(1, 25) }, dist \in { I(1), I(2501) } :
        CarInit(a, I(0), I(0), tickLen, dist)

NextForce ==
    \/ \E g \in ForceGas : Gas(g)
    \/ \E b \in BrakeInputs : Exact(linearVelocity, [w \in WheelSet |-> b]) /\ Brake(b)
    \/ ticks < MaxForceTicks /\ Step
    \/ \E va \in AllWheels(ForceVelocities), ta \in AllWheels({ {}, { "t100" } }) :
          ticks < MaxForceTicks /\ Exact(va, brake) /\ WorldStep(va, ta)

SpecForce == InitForce /\ [][NextForce]_vars

\* C6: in step, a wheel whose brake is >= 0.9 has its omega set to exactly 0 whatever
\* its velocity, gas and radius: the acel and decel values are not used, the phase does
\* not advance, the rim speed vr entering the slip force is 0 (the forward slip force
\* is -vf alone), and the omega left by the tick is the friction reaction alone.
C6_BrakeLock ==
    [][ticks' = ticks + 1 =>
         \A w \in WheelSet :
            (InWheels(w) /\ RLe(Q(9, 10), brake[w])) =>
               /\ loc'[w].omega_set = I(0)
               /\ phase'[w] = phase[w]
               /\ loc'[w].vr = I(0)
               /\ loc'[w].raw[1]
                     = RMul(RNeg(Along(forwOf(bodyAngle[w]), linearVelocity[w])),
                            FORCE_COEF)
               /\ omega'[w]
                     = RNeg(RDiv(RMul(RMul(dt, loc'[w].applied[1]), wheel_rad(w)),
                                 WHEEL_MOMENT_OF_INERTIA))]_vars

\* a locked rear wheel with gas applied, sliding across and along its axis
C6_Witness ==
    /\ turn = "world" /\ loc["w2"].stepped
    /\ RLe(Q(9, 10), loc["w2"].brake)
    /\ RLt(I(0), gas["w2"]) /\ RLt(I(0), loc["w2"].omega_acel)
    /\ linearVelocity["w2"] = << I(6), I(8) >>
    /\ loc["w2"].omega_set = I(0)

\* C8: when the raw slip force magnitude exceeds the friction limit the applied force
\* has magnitude friction_limit and is the raw force scaled, both components, by the
\* same positive factor; otherwise the raw force is applied unchanged; the applied
\* magnitude never exceeds the limit, skid threshold crossed or not, and it is the
\* force handed to the wheel body.
C8_ForceClipped ==
    \A w \in WheelSet :
        loc[w].stepped =>
            LET L == loc[w]
                k == RDiv(L.friction_limit, L.force)
            IN  /\ RLt(L.friction_limit, L.force) =>
                      /\ Hypot(L.applied[1], L.applied[2]) = L.friction_limit
                      /\ RLt(I(0), k)
                      /\ L.applied = << RMul(k, L.raw[1]), RMul(k, L.raw[2]) >>
                /\ ~RLt(L.friction_limit, L.force) => L.applied = L.raw
                /\ RLe(Hypot(L.applied[1], L.applied[2]), L.friction_limit)
                /\ turn = "world" =>
                      Hypot(bodyForce[w][1], bodyForce[w][2])
                          = Hypot(L.applied[1], L.applied[2])

\* a wheel whose slip force is above the friction limit and not above twice it
C8_Witness ==
    \E w \in WheelSet :
        /\ loc[w].stepped /\ ~loc[w].skid
        /\ RLt(loc[w].friction_limit, loc[w].force)
        /\ loc[w].applied # loc[w].raw
----------------------------------------------------------------------------
(* A freshly built car that is held at rest while the driver uses the       *)
(* pedals.                                                                  *)

\* how many ticks the held car is followed
MaxFreshTicks == 1

InitFresh ==
    \E a \in { 0, 1 }, tickLen \in { Q(1, 50), Q(1, 25) } :
        CarInit(a, I(0), I(0), tickLen, I(0))

NextFresh ==
    \/ \E g \in { I(0), I(1) } : Gas(g)
    \/ \E b \in { I(0), I(1) } : Brake(b)
    \/ ticks < MaxFreshTicks /\ Step
    \/ \E ta \in AllWheels({ {}, { "t100" } }) : WorldStep(AtRest, ta)

SpecFresh == InitFresh /\ [][NextFresh]_vars

\* the first step(0.02) of the fresh car has run with gas 1 and brake 0
FirstStepAtFullGas ==
    /\ ticks = 1 /\ turn = "world" /\ dt = Q(1, 50)
    /\ \A w \in RearWheels : gas[w] = I(1)
    /\ \A w \in WheelSet : loc[w].stepped /\ brake[w] = I(0)

\* C7, as stated: one step(0.02) of the fresh car at rest with gas 1 and brake 0 leaves
\* omega > 0 on the rear wheels, omega = 0 on the front wheels and a totalDistance
\* greater than before.
C7_FirstStepAdvancesOdometer ==
    FirstStepAtFullGas =>
        /\ \A w \in RearWheels : RLt(I(0), omega[w])
        /\ \A w \in FrontWheels : omega[w] = I(0)
        /\ RLt(I(0), totalDistance)

\* C7, amended: that step leaves omega > 0 on the rear wheels, omega = 0 on the front
\* wheels and totalDistance unchanged at 0, the wheel bodies being still at rest when
\* their speed is read.
C7_FirstStepKeepsOdometer ==
    FirstStepAtFullGas =>
        /\ \A w \in RearWheels : RLt(I(0), omega[w])
        /\ \A w \in FrontWheels : omega[w] = I(0)
        /\ totalDistance = I(0)

C7_Witness == FirstStepAtFullGas /\ RLt(I(0), omega["w2"]) /\ fuel_spent # I(0)
----------------------------------------------------------------------------
(* A car standing still whose driver picks a steering target and a gas      *)
(* level before the first tick and holds them.                              *)

\* how many ticks the steered car is followed
MaxSteerTicks == 8

InitSteer == \E tickLen \in { Q(1, 50), Q(1, 25) } : CarInit(0, I(0), I(0), tickLen, I(0))

NextSteer ==
    \/ \E s \in SteerInputs : ticks = 0 /\ Steer(s)
    \/ \E g \in { I(0), I(1) } : ticks = 0 /\ Gas(g)
    \/ ticks < MaxSteerTicks /\ Step
    \/ WorldStep(AtRest, NoTiles)

SpecSteer == InitSteer /\ [][NextSteer]_vars

\* the steering target of C9
SteerTarget == Q(2, 5)

----------------------------------------------------------------------------
(* A car on worn tyres that slides or rolls over a striped surface.  Its    *)
(* motion is set in the first ticks and is steady from then on.             *)

\* how many ticks the sliding car is followed
MaxSkidTicks == 34

\* the tick up to which the world may change the car's velocity
SettleTicks == 4

\* at rest, along y at one stripe or half a stripe a tick, along the stripes
SkidVelocities ==
    { << I(0), I(0) >>, << I(0), I(50) >>, << I(0), I(25) >>, << I(50), I(0) >> }

\* where wheel w is after a world step at velocity v
Moved(w, v) ==
    << RAdd(position[w][1], RMul(dt, v[1])), RAdd(position[w][2], RMul(dt, v[2])) >>

InitSkid == CarInit(0, I(0), I(0), Q(1, 50), I(2501))

NextSkid ==
    \/ ticks = 0 /\ Brake(I(1))
    \/ ticks < MaxSkidTicks /\ Step
    \/ \E v \in SkidVelocities :
          /\ ticks <= SettleTicks \/ \A w \in WheelSet : linearVelocity[w] = v
          /\ Exact([w \in WheelSet |-> v], brake)
          /\ WorldStep([w \in WheelSet |-> v], [w \in WheelSet |-> TilesAt(Moved(w, v))])

SpecSkid == InitSkid /\ [][NextSkid]_vars

\* C3: the particle list never holds more than 30 particles; it holds the particles
\* created last, in creation order, all of them while no more than 30 have been
\* created and exactly the 30 newest after that.
C3_ParticlesBounded ==
    /\ Len(particles) <= 30
    /\ Len(particles) = IF nCreated > 30 THEN 30 ELSE nCreated
    /\ \A i \in 1..Len(particles) :
          /\ particles[i] = nCreated - Len(particles) + i
          /\ particles[i] \in DOMAIN heap

\* more than 30 particles have been created and the oldest are gone
C3_Witness == nCreated > 32 /\ Len(particles) = 30 /\ particles[1] = nCreated - 29

\* the tick's branch of the skid trace for wheel w, read off the state before the tick
\* and the state after it
SkidBranch(w) ==
    LET sk    == RLt(RMul(I(2), loc'[w].friction_limit), loc'[w].force)
        g     == loc'[w].grass
        sp    == skid_particle[w]
        match == /\ sp # None
                 /\ heap[sp[1]].grass = g
                 /\ Len(heap[sp[1]].poly) < 30
    IN  /\ g = (tiles[w] = {})
        /\ IF ~sk
           THEN skid_start'[w] = None /\ skid_particle'[w] = None
           ELSE IF match
           THEN /\ heap'[sp[1]].poly = Append(heap[sp[1]].poly, position[w])
                /\ skid_particle'[w] = sp /\ skid_start'[w] = skid_start[w]
                /\ loc'[w].gained /\ ~loc'[w].created
           ELSE IF skid_start[w] = None
           THEN /\ skid_start'[w] = Some(position[w])
                /\ skid_particle'[w] = sp
                /\ sp # None => heap'[sp[1]] = heap[sp[1]]
                /\ ~loc'[w].gained /\ ~loc'[w].created
           ELSE /\ skid_particle'[w] # None
                /\ skid_particle'[w][1] > nCreated
                /\ heap'[skid_particle'[w][1]].poly = << skid_start[w][1], position[w] >>
                /\ heap'[skid_particle'[w][1]].grass = g
                /\ \E i \in 1..Len(particles') : particles'[i] = skid_particle'[w][1]
                /\ skid_start'[w] = None
                /\ ~loc'[w].gained /\ loc'[w].created
        /\ loc'[w].created => (loc[w].stepped /\ loc[w].skid /\ sk)

\* every tick of every wheel takes the branch the skid trace prescribes, and a
\* particle is created only on a skid tick that follows a skid tick
SkidBranches == [][ticks' = ticks + 1 => \A w \in WheelSet : SkidBranch(w)]_vars

\* no particle's polyline has fewer than 2 or more than 30 points
PolylinesBounded == \A id \in DOMAIN heap : Len(heap[id].poly) >= 2 /\ Len(heap[id].poly) <= 30

\* no wheel holds a skid start on a tick on which its active particle gained a point
NoStartHeldWithPoint == \A w \in WheelSet : ~(loc[w].gained /\ skid_start[w] # None)

\* no wheel records a skid start on a tick on which its active particle gained a
\* point: a start it holds then was recorded on an earlier tick
NoStartRecordedWithPoint ==
    \A w \in WheelSet : (loc[w].gained /\ skid_start[w] # None) => loc[w].startBefore

\* C10, as stated: each tick of a wheel appends to the matching active particle,
\* else records a start, else creates a two-point particle and clears the start, and
\* at or below the threshold clears start and particle; a particle is created only on
\* the second of two consecutive skid ticks; polylines have 2 to 30 points; a wheel
\* never holds a skid start on a tick on which its particle gains a point.
C10_SkidTraceAsStated == SkidBranches /\ []PolylinesBounded /\ []NoStartHeldWithPoint

\* C10, amended: the same, except that a wheel never records a skid start on a tick
\* on which its particle gains a point; it may still hold one recorded earlier.
C10_SkidTrace == SkidBranches /\ []PolylinesBounded /\ []NoStartRecordedWithPoint

\* a wheel whose particle gained a point while the wheel holds an earlier skid start
C10_Witness ==
    \E w \in WheelSet : loc[w].gained /\ skid_start[w] # None /\ loc[w].startBefore
====
